---- MODULE Spec2Model ----
(***************************************************************************)
(* Model of the SoFurry EPUB downloader                                    *)
(* (src/sofurry-scraper/sofurry_downloader.py): main(), login,             *)
(* get_story_links with its folder expansion, download_all and             *)
(* download_story with the on-disk existence check; and of the proxy       *)
(* start/stop of the Ollama dashboard (src/ollama-stuff), in its two       *)
(* forms: main.py with routes.py, proxy.py and database.py, and the        *)
(* single-file ollama_model_manager.py.                                    *)
(*                                                                         *)
(* Strings are sequences of one-character strings, so that the             *)
(* sanitising, normalising and substring tests of the code are computed    *)
(* and not assumed.  The web site, the browser and the file system are     *)
(* the environment: every answer they can give is a nondeterministic       *)
(* choice of the action that asks.                                         *)
(***************************************************************************)
EXTENDS Integers, Sequences, FiniteSets, TLC

----------------------------------------------------------------------------
(* Bounds of the model *)

\* get_story_links: max_pages = 100 in the source.  The model runs the same
\* loop with a small ceiling so that the ceiling is reached.
max_pages == 6

\* Number of distinct stories the site can show (identities "1".."N").
NumStories == 5

\* Largest number of /view/ links on one listing page.
MaxPageLen == 2

\* Largest number of folder links on page 1.
MaxFolders == 2

\* Largest number of pages of a fixed listing (SpecListing).
MaxListingPages == 5

\* Most files in the output directory when a download run starts on it
MaxDirFiles == 2

\* Most /api/server/start and /api/server/stop requests sent to a dashboard
MaxRequests == 4

----------------------------------------------------------------------------
(* Strings *)

DigitChars == <<"0", "1", "2", "3", "4", "5", "6", "7", "8", "9">>
Digits == {DigitChars[i] : i \in 1..10}
UpperChars == <<"A","B","C","D","E","F","G","H","I","J","K","L","M",
                "N","O","P","Q","R","S","T","U","V","W","X","Y","Z">>
LowerChars == <<"a","b","c","d","e","f","g","h","i","j","k","l","m",
                "n","o","p","q","r","s","t","u","v","w","x","y","z">>
Uppers == {UpperChars[i] : i \in 1..26}
Lowers == {LowerChars[i] : i \in 1..26}

\* str(n) for a natural number n
RECURSIVE IdStr(_)
IdStr(n) == IF n < 10 THEN <<DigitChars[n + 1]>>
            ELSE IdStr(n \div 10) \o <<DigitChars[(n % 10) + 1]>>

\* c.lower()
Lower(c) == IF c \in Uppers
            THEN LowerChars[CHOOSE i \in 1..26 : UpperChars[i] = c]
            ELSE c

\* s.lower()
LowerStr(s) == [i \in 1..Len(s) |-> Lower(s[i])]

\* re.sub(r'[...]', '', s): drop the characters of a class
DropChars(s, class) == SelectSeq(s, LAMBDA c : c \notin class)

\* s.strip(), for the blank of the model's alphabet
RECURSIVE LStrip(_)
LStrip(s) == IF s # <<>> /\ Head(s) = " " THEN LStrip(Tail(s)) ELSE s
RECURSIVE RStrip(_)
RStrip(s) == IF s # <<>> /\ s[Len(s)] = " "
             THEN RStrip(SubSeq(s, 1, Len(s) - 1)) ELSE s
Strip(s) == RStrip(LStrip(s))

\* s.replace(a, b) for one-character a and b
ReplaceChar(s, a, b) == [i \in 1..Len(s) |-> IF s[i] = a THEN b ELSE s[i]]

\* a in b  (substring test)
IsSubstring(a, b) ==
    \E i \in 0..(Len(b) - Len(a)) : SubSeq(b, i + 1, i + Len(a)) = a

\* s.startswith(p)
StartsWith(s, p) == Len(s) >= Len(p) /\ SubSeq(s, 1, Len(p)) = p

----------------------------------------------------------------------------
(* The file-name rules of is_story_already_downloaded / download_story *)

ForbiddenChars == {"<", ">", ":", "\"", "/", "\\", "|", "?", "*"}
TitleCut == 100

\* safe_title = re.sub(r'[<>:"/\\|?*]', '', title)[:100].strip()
\* safe_title = safe_title.replace(' ', '_')
SafeTitle(title) ==
    LET kept == DropChars(title, ForbiddenChars)
        cut  == SubSeq(kept, 1, IF Len(kept) < TitleCut THEN Len(kept) ELSE TitleCut)
    IN  ReplaceChar(Strip(cut), " ", "_")

\* stem of f"{story_id}_{safe_title}.epub"
PreferredStem(story_id, title) == story_id \o <<"_">> \o SafeTitle(title)

\* stems of possible_files
PossibleStems(story_id, title) ==
    {PreferredStem(story_id, title), SafeTitle(title), story_id}

\* re.sub(r'[^a-zA-Z0-9]', '', s.lower())
Cleaned(s) == SelectSeq(LowerStr(s), LAMBDA c : c \in Lowers \cup Digits)

\* re.sub(r'\d+_?', '', s): drop every run of digits and one "_" after it
RECURSIVE DropIdRuns(_)
DropIdRuns(s) ==
    IF s = <<>> THEN <<>>
    ELSE IF Head(s) \in Digits
         THEN LET rest == Tail(s)
              IN IF rest # <<>> /\ Head(rest) \in Digits THEN DropIdRuns(rest)
                 ELSE IF rest # <<>> /\ Head(rest) = "_" THEN DropIdRuns(Tail(rest))
                 ELSE DropIdRuns(rest)
         ELSE <<Head(s)>> \o DropIdRuns(Tail(s))

ExactMatch(story_id, title, epubs) ==
    \E st \in PossibleStems(story_id, title) : st \in epubs

IdMatch(story_id, epubs) ==
    \E st \in epubs : IsSubstring(story_id, st)

\* The fuzzy rule without the length test of line 413
TitleMatchAnyLength(title, epubs) ==
    LET cleaned_title == Cleaned(title)
    IN  /\ cleaned_title # <<>>
        /\ \E st \in epubs :
             LET epub_title_clean == DropIdRuns(Cleaned(st))
             IN  \/ IsSubstring(cleaned_title, epub_title_clean)
                 \/ IsSubstring(epub_title_clean, cleaned_title)

TitleMatch(title, epubs) ==
    LET cleaned_title == Cleaned(title)
    IN  /\ cleaned_title # <<>>
        /\ \E st \in epubs :
             LET epub_title_clean == DropIdRuns(Cleaned(st))
             IN  /\ \/ IsSubstring(cleaned_title, epub_title_clean)
                    \/ IsSubstring(epub_title_clean, cleaned_title)
                 /\ Len(cleaned_title) > 3
                 /\ Len(epub_title_clean) > 3

\* The three rules with the identity rule tried before the exact names
MatchKindIdFirst(story_id, title, epubs) ==
    IF IdMatch(story_id, epubs) THEN "id"
    ELSE IF ExactMatch(story_id, title, epubs) THEN "exact"
    ELSE IF TitleMatch(title, epubs) THEN "title"
    ELSE "none"

\* is_story_already_downloaded: "exact", "id", "title" or "none"
MatchKind(story_id, title, epubs) ==
    IF ExactMatch(story_id, title, epubs) THEN "exact"
    ELSE IF IdMatch(story_id, epubs) THEN "id"
    ELSE IF TitleMatch(title, epubs) THEN "title"
    ELSE "none"

is_story_already_downloaded(story_id, title, epubs) ==
    MatchKind(story_id, title, epubs) # "none"

----------------------------------------------------------------------------
(* The site *)

\* Display titles the site gives its stories
SampleTitles == << <<"a", " ", "b">>,
                   <<"T", "a", "l", "e">>,
                   <<"x", "?">>,
                   <<"T", "a", "l", "e", "s", " ", "2">>,
                   <<"F", "o", "x">> >>
TitleOf(n) == SampleTitles[((n - 1) % Len(SampleTitles)) + 1]

StoryNums == 1..NumStories

\* A /view/ link of a page: a story link with its title as text, or a link
\* without text (a thumbnail), which line 261 skips.
Blank == 0
Elements == StoryNums \cup {Blank}

RECURSIVE SeqsUpTo(_, _)
SeqsUpTo(S, n) ==
    IF n = 0 THEN {<<>>}
    ELSE LET shorter == SeqsUpTo(S, n - 1)
         IN  shorter \cup {Append(s, x) : s \in {t \in shorter : Len(t) = n - 1}, x \in S}

AllPages == SeqsUpTo(Elements, MaxPageLen)

FolderTitle(f) == <<"f">> \o IdStr(f)
FolderPrefix == <<"[", "F", "O", "L", "D", "E", "R", ":", " ">>


----------------------------------------------------------------------------
(* State *)

VARIABLES
    pc,                 \* position of main(): "init", "login", "fetch",
                        \* "folders", "returned", "download", "exit"
    driver,             \* "none", "open", "quit"
    quits,              \* number of calls of driver.quit()
    ending,             \* how main() ended ("" while running)
    exit_code,          \* exit status of the process (-1 while running)
    site,               \* the listing the site serves
    files,              \* stems of the *.epub files of the output directory
    incomplete,         \* the files among them that are empty or only
                        \* partly written
    run,                \* 1, or 2 for a second run on the same directory
    first_run,          \* what the first run did (SpecListing)
    \* locals of get_story_links
    page, all_stories, seen_story_ids,
    consecutive_duplicate_pages, last_page_count,
    page_stories, new_stories_on_page,
    folder_elements,    \* number of folder links found on the page
    folder_info_list,   \* folders still to expand
    \* locals of download_all
    stories, idx, successful, failed,
    \* observations of the run (history)
    page_gets,          \* listing pages requested by get_story_links
    folder_gets,        \* folder listings requested by get_story_links
    export_gets,        \* navigations to /export/ePub
    skipped,            \* items found on disk by download_story
    prev_stories,       \* all_stories when the current page was requested
    page_all_seen,      \* the current page showed no identity unseen before it
    empty_at,           \* the page that showed no story (page 1: and no
                        \* folder either), 0 if none did
    fetch_failed,       \* page whose request raised, 0 if none
    auth_redirect,      \* a discovery request landed on the login surface
    folder_dup,         \* a folder's first story had been seen already
    crawl_end,          \* why get_story_links stopped ("" while it runs)
    app,                \* the dashboard that is run: "main" (main.py) or
                        \* "manager" (ollama_model_manager.py)
    up,                 \* the dashboard process is running
    proxy_process,      \* the global handle: None or the subprocess
    spawned,            \* number of subprocesses created by Popen so far
    alive,              \* the subprocesses that are running
    script,             \* model written into ollama_openai_proxy.py, or
                        \* NoScript when the file does not exist
    server_state,       \* the row of table server_state, or NoRow
    pending,            \* start and stop requests received and not yet
                        \* served: how many of each
    requests,           \* number of start and stop requests served
    last_op,            \* the last operation: "start", "stop", "shutdown",
                        \* "boot" ("" before the first)
    response,           \* its answer ("" when it has none)
    model_usage,        \* the rows of table model_usage
    usage_calls,        \* per model, the update_usage calls made since the
                        \* last init_db
    db_calls,           \* number of calls made to ModelDB so far
    db_op,              \* the last call made to ModelDB, with its arguments
    hpc,                \* where the proxy's request handler stands
    request,            \* the POST request the client sent
    path,               \* self.path
    rfile,              \* what the client sent and do_POST has not read yet
    post_data,          \* the bytes read by the running do_POST
    upstream,           \* the requests sent to Ollama, in order
    reply               \* what the client was sent ("" so far nothing)

crawlVars == <<page, all_stories, seen_story_ids, consecutive_duplicate_pages,
               last_page_count, page_stories, new_stories_on_page,
               folder_elements, folder_info_list>>
dlVars    == <<stories, idx, successful, failed>>
histVars  == <<page_gets, folder_gets, export_gets, skipped, prev_stories,
               page_all_seen, empty_at, fetch_failed, auth_redirect,
               folder_dup, crawl_end>>
mainVars  == <<pc, driver, quits, ending, exit_code>>
envVars   == <<site, files, incomplete, run, first_run>>
scraperVars == <<mainVars, envVars, crawlVars, dlVars, histVars>>
proxyVars == <<app, up, proxy_process, spawned, alive, script, server_state,
               pending, requests, last_op, response>>
dbVars == <<model_usage, usage_calls, db_calls, db_op>>
handlerVars == <<hpc, request, path, rfile, post_data, upstream, reply>>
dashboardVars == <<proxyVars, dbVars, handlerVars>>
vars == <<scraperVars, dashboardVars>>

\* proxy.py line 14, ollama_model_manager.py line 2213
None == 0
NoScript == "none"
NoRow == [is_running |-> FALSE, model_name |-> "none"]
Apps == {"main", "manager"}
NoPending == [start |-> 0, stop |-> 0]
\* data['model'] of a request
Models == {"m1", "m2"}
\* The value of a column that was never set, and of an argument that is not
\* passed (None)
NULL == "NULL"
NoCalls == [m \in Models |-> 0]
NoOp == [op |-> "", model_name |-> "", notes |-> NULL, rating |-> NULL,
         performance_notes |-> NULL, custom_params |-> NULL]
\* A body of no bytes, as read from a request without one or from a
\* connection the client has closed
NoBytes == [kind |-> "empty", has_prompt |-> FALSE, prompt |-> "",
            has_messages |-> FALSE, messages |-> <<>>, stream |-> FALSE]
NoRequest == [path |-> "", body |-> NoBytes, extra |-> <<>>, closes |-> FALSE]

\* No call was made to the database
NoDatabase ==
    /\ model_usage = {}
    /\ usage_calls = NoCalls
    /\ db_calls = 0
    /\ db_op = NoOp

\* The proxy has received no request
NoHandler ==
    /\ hpc = "idle"
    /\ request = NoRequest
    /\ path = ""
    /\ rfile = <<>>
    /\ post_data = NoBytes
    /\ upstream = <<>>
    /\ reply = ""

\* No dashboard is involved in a run of the downloader
NoDashboard ==
    /\ app = "main"
    /\ up = FALSE
    /\ proxy_process = None
    /\ spawned = 0
    /\ alive = {}
    /\ script = NoScript
    /\ server_state = NoRow
    /\ pending = NoPending
    /\ requests = 0
    /\ last_op = ""
    /\ response = ""
    /\ NoDatabase
    /\ NoHandler

AnySite  == [fixed |-> FALSE, pages |-> 0, per |-> 0, folders |-> 0,
             slow |-> FALSE]
\* The same site when the export can still be in transfer, or empty, at the
\* moment download_story looks at the directory
SlowSite == [AnySite EXCEPT !.slow = TRUE]
NoRun    == [stories |-> <<>>, failed |-> 0, ending |-> ""]

\* A fixed listing: `pages` pages of `per` stories each, all different, and
\* `folders` folder links on page 1, then empty pages.
Listings ==
    {[fixed |-> TRUE, pages |-> k, per |-> m, folders |-> n, slow |-> FALSE] :
        k \in 0..MaxListingPages, m \in 1..MaxPageLen, n \in 0..MaxFolders}
ListingPage(s, p) ==
    IF p <= s.pages THEN [i \in 1..s.per |-> (p - 1) * s.per + i] ELSE <<>>

\* get_story_links only compares identities, so the stories are numbered
\* in the order in which the site first shows them: with k stories shown so
\* far, the next story never shown before is k + 1.
RECURSIVE InOrder(_, _)
InOrder(elems, k) ==
    \/ elems = <<>>
    \/ /\ Head(elems) <= k + 1
       /\ InOrder(Tail(elems), IF Head(elems) = k + 1 THEN k + 1 ELSE k)

\* Listing pages with the folder links looked for on every page and not
\* only on page 1 (line 243 without its test)
PageChoicesFoldersOnAllPages(s, p, k) ==
    IF s.fixed
    THEN {[elems |-> ListingPage(s, p), nfolders |-> s.folders]}
    ELSE {[elems |-> e, nfolders |-> n] :
            e \in {a \in AllPages : InOrder(a, k)},
            n \in 0..MaxFolders}

\* What the site can show as listing page p: the /view/ links and the
\* number of folder links (folders are looked for on page 1 only).
PageChoices(s, p, k) ==
    IF s.fixed
    THEN {[elems |-> ListingPage(s, p),
           nfolders |-> IF p = 1 THEN s.folders ELSE 0]}
    ELSE {[elems |-> e, nfolders |-> n] :
            e \in {a \in AllPages : InOrder(a, k)},
            n \in (IF p = 1 THEN 0..MaxFolders ELSE {0})}

\* State of the locals when get_story_links is entered (lines 217-222)
CrawlStart ==
    /\ page = 1
    /\ all_stories = <<>>
    /\ seen_story_ids = {}
    /\ consecutive_duplicate_pages = 0
    /\ last_page_count = 0
    /\ page_stories = 0
    /\ new_stories_on_page = 0
    /\ folder_elements = 0
    /\ folder_info_list = <<>>

RunStart ==
    /\ pc = "init"
    /\ driver = "none"
    /\ quits = 0
    /\ ending = ""
    /\ exit_code = -1
    /\ CrawlStart
    /\ stories = <<>> /\ idx = 1 /\ successful = 0 /\ failed = 0
    /\ page_gets = 0 /\ folder_gets = 0 /\ export_gets = 0 /\ skipped = 0
    /\ prev_stories = <<>>
    /\ page_all_seen = FALSE
    /\ empty_at = 0
    /\ fetch_failed = 0
    /\ auth_redirect = FALSE
    /\ folder_dup = FALSE
    /\ crawl_end = ""

Init ==
    /\ RunStart
    /\ site = AnySite
    /\ files = {}
    /\ incomplete = {}
    /\ run = 1
    /\ first_run = NoRun
    /\ NoDashboard

----------------------------------------------------------------------------
(* main(): start, login, end *)

\* main() returns normally on every path (lines 531-546), so the process
\* exit status is the interpreter's default whatever the ending was.
ExitStatus(e) == 0

\* The finally clause of main() (lines 544-546) and the return from main()
Exit(e) ==
    /\ pc' = "exit"
    /\ ending' = e
    /\ driver' = "quit"
    /\ quits' = quits + 1
    /\ exit_code' = ExitStatus(e)

\* __init__ raises in its try block (lines 59-75): at line 62 or 63, before
\* self.driver exists, or at line 66, when the browser is already running.
\* main() prints and returns (lines 531-533); nothing calls quit.
CreatedBeforeFailure == {"none", "open"}

\* SoFurrySeleniumDownloader(...) (lines 524-533)
InitDriver ==
    /\ pc = "init"
    /\ \/ /\ pc' = "login"
          /\ driver' = "open"
          /\ UNCHANGED <<quits, ending, exit_code>>
       \/ /\ pc' = "exit"          \* __init__ raised: message, return
          /\ ending' = "init_failed"
          /\ exit_code' = ExitStatus("init_failed")
          /\ driver' \in CreatedBeforeFailure
          /\ UNCHANGED quits
    /\ UNCHANGED <<envVars, crawlVars, dlVars, histVars>>
    /\ UNCHANGED dashboardVars

\* downloader.login(...) returned True (line 536): download_all starts
LoginOk ==
    /\ pc = "login"
    /\ pc' = "fetch"
    /\ UNCHANGED <<driver, quits, ending, exit_code, envVars, crawlVars, dlVars, histVars>>
    /\ UNCHANGED dashboardVars

\* login returned False (lines 538-539), or raised at line 92 (lines 542-543)
LoginFails ==
    /\ pc = "login"
    /\ \E e \in {"login_failed", "error"} : Exit(e)
    /\ UNCHANGED <<envVars, crawlVars, dlVars, histVars>>
    /\ UNCHANGED dashboardVars

----------------------------------------------------------------------------
(* get_story_links *)

\* Off-by-one variant of the loop test
LoopConditionOffByOne(p) == p <= max_pages + 1

\* while page <= max_pages (line 226)
LoopCondition(p) == p <= max_pages

\* line 234: "login" in current_url.lower() and "browse" not in current_url
SessionExpired(url) == url.login /\ ~url.browse

\* Where a request for a listing page can land: the listing, a login page,
\* or a login page whose address still carries the browse path.
LandingUrls == {[login |-> FALSE, browse |-> TRUE],
                [login |-> TRUE,  browse |-> FALSE],
                [login |-> TRUE,  browse |-> TRUE]}

\* Variant without the membership test
IsNewUnchecked(story_id, seen) == TRUE

\* line 268 / 304: story_id not in seen_story_ids
IsNew(story_id, seen) == story_id \notin seen

\* lines 256-273, over the links of one page
RECURSIVE ProcessStories(_, _)
ProcessStories(elems, st) ==
    IF elems = <<>> THEN st
    ELSE LET e == Head(elems)
         IN  IF e = Blank
             THEN ProcessStories(Tail(elems), st)
             ELSE LET story_id == IdStr(e)
                      title    == TitleOf(e)
                      isnew    == IsNew(story_id, st.seen)
                  IN  ProcessStories(Tail(elems),
                        [all   |-> IF isnew THEN Append(st.all, <<story_id, title>>)
                                   ELSE st.all,
                         seen  |-> IF isnew THEN st.seen \cup {story_id} ELSE st.seen,
                         count |-> st.count + 1,
                         new   |-> IF isnew THEN st.new + 1 ELSE st.new])

\* identities a page shows
PageIds(elems) == {IdStr(elems[i]) : i \in {j \in 1..Len(elems) : elems[j] # Blank}}

\* return all_stories / return [] (lines 352, 236) into
\* stories = self.get_story_links() (line 475)
ReturnFromCrawl(res) ==
    /\ stories' = res
    /\ pc' = "returned"
    /\ UNCHANGED <<driver, quits, ending, exit_code, idx, successful, failed>>

\* Variant in which a failed request is swallowed inside the loop and the
\* loop goes on with the next page
FetchPageRaisesSwallowed ==
    /\ pc = "fetch"
    /\ page_gets' = page_gets + 1
    /\ fetch_failed' = page
    /\ prev_stories' = all_stories
    /\ page' = page + 1
    /\ IF LoopCondition(page + 1)
       THEN /\ pc' = "fetch"
            /\ UNCHANGED <<driver, quits, ending, exit_code, dlVars, crawl_end>>
       ELSE /\ crawl_end' = "ceiling"
            /\ ReturnFromCrawl(all_stories)
    /\ UNCHANGED <<envVars, all_stories, seen_story_ids,
                   consecutive_duplicate_pages, last_page_count, page_stories,
                   new_stories_on_page, folder_elements, folder_info_list,
                   folder_gets, export_gets, skipped,
                   page_all_seen, empty_at, auth_redirect, folder_dup>>
    /\ UNCHANGED dashboardVars

\* self.driver.get(url) or find_elements raises (lines 230, 239, 244): the
\* exception leaves get_story_links and download_all and is caught at
\* line 542.
FetchPageRaises ==
    /\ pc = "fetch"
    /\ page_gets' = page_gets + 1
    /\ fetch_failed' = page
    /\ crawl_end' = "error"
    /\ prev_stories' = all_stories
    /\ Exit("error")
    /\ UNCHANGED <<envVars, crawlVars, dlVars, folder_gets, export_gets, skipped,
                   page_all_seen, empty_at, auth_redirect, folder_dup>>
    /\ UNCHANGED dashboardVars

\* lines 233-236: session expired, return []
FetchPageLogin ==
    /\ pc = "fetch"
    /\ \E url \in LandingUrls :
          /\ SessionExpired(url)
          /\ page_gets' = page_gets + 1
          /\ auth_redirect' = TRUE
          /\ crawl_end' = "auth"
          /\ prev_stories' = all_stories
          /\ ReturnFromCrawl(<<>>)
    /\ UNCHANGED <<envVars, crawlVars, folder_gets, export_gets, skipped,
                   page_all_seen, empty_at, fetch_failed, folder_dup>>
    /\ UNCHANGED dashboardVars

\* lines 227-293: the page is read; its story links are classified, the
\* folder links of page 1 are collected
FetchPageOk ==
    /\ pc = "fetch"
    /\ \E url \in LandingUrls,
          c \in PageChoices(site, page, Cardinality(seen_story_ids)) :
          LET shown == IF url.login THEN [elems |-> <<>>, nfolders |-> 0] ELSE c
              st == ProcessStories(shown.elems,
                        [all |-> all_stories, seen |-> seen_story_ids,
                         count |-> 0, new |-> 0])
          IN  /\ ~SessionExpired(url)
              /\ page_gets' = page_gets + 1
              /\ auth_redirect' = (auth_redirect \/ url.login)
              /\ prev_stories' = all_stories
              /\ page_all_seen' = (PageIds(shown.elems) \subseteq seen_story_ids)
              /\ empty_at' = IF /\ ~url.login
                                /\ PageIds(shown.elems) = {}
                                /\ (page > 1 \/ shown.nfolders = 0)
                             THEN page ELSE empty_at
              /\ folder_elements' = shown.nfolders
              /\ IF shown.elems = <<>> /\ shown.nfolders = 0
                 THEN \* lines 248-250
                      /\ crawl_end' = "empty"
                      /\ ReturnFromCrawl(all_stories)
                      /\ page_stories' = 0
                      /\ new_stories_on_page' = 0
                      /\ folder_info_list' = <<>>
                      /\ UNCHANGED <<all_stories, seen_story_ids>>
                 ELSE /\ all_stories' = st.all
                      /\ seen_story_ids' = st.seen
                      /\ page_stories' = st.count
                      /\ new_stories_on_page' = st.new
                      /\ folder_info_list' = [i \in 1..shown.nfolders |-> i]
                      /\ pc' = "folders"
                      /\ UNCHANGED <<driver, quits, ending, exit_code, dlVars, crawl_end>>
    /\ UNCHANGED <<envVars, page, consecutive_duplicate_pages, last_page_count,
                   folder_gets, export_gets, skipped, fetch_failed, folder_dup>>
    /\ UNCHANGED dashboardVars

\* An error of a folder that is not caught in get_first_story_from_folder
\* nor in the loop of lines 296-314 and ends the run
ExpandFolderNoneAborts ==
    /\ pc = "folders"
    /\ folder_info_list # <<>>
    /\ folder_info_list' = Tail(folder_info_list)
    /\ folder_gets' = folder_gets + 1
    /\ crawl_end' = "error"
    /\ Exit("error")
    /\ UNCHANGED <<envVars, dlVars, page, all_stories, seen_story_ids,
                   consecutive_duplicate_pages, last_page_count, page_stories,
                   new_stories_on_page, folder_elements,
                   page_gets, export_gets, skipped, prev_stories, page_all_seen,
                   empty_at, fetch_failed, auth_redirect, folder_dup>>
    /\ UNCHANGED dashboardVars

\* get_first_story_from_folder returned None without a login redirect:
\* no story in the folder (line 207) or an error (lines 209-213)
ExpandFolderNone ==
    /\ pc = "folders"
    /\ folder_info_list # <<>>
    /\ folder_info_list' = Tail(folder_info_list)
    /\ folder_gets' = folder_gets + 1
    /\ UNCHANGED <<mainVars, envVars, dlVars, page, all_stories, seen_story_ids,
                   consecutive_duplicate_pages, last_page_count, page_stories,
                   new_stories_on_page, folder_elements,
                   page_gets, export_gets, skipped, prev_stories, page_all_seen,
                   empty_at, fetch_failed, auth_redirect, folder_dup, crawl_end>>
    /\ UNCHANGED dashboardVars

\* get_first_story_from_folder: redirected to login, return None
\* (lines 147-149); the caller goes on with the next folder (line 311)
ExpandFolderLogin ==
    /\ pc = "folders"
    /\ folder_info_list # <<>>
    /\ folder_info_list' = Tail(folder_info_list)
    /\ folder_gets' = folder_gets + 1
    /\ auth_redirect' = TRUE
    /\ UNCHANGED <<mainVars, envVars, dlVars, page, all_stories, seen_story_ids,
                   consecutive_duplicate_pages, last_page_count, page_stories,
                   new_stories_on_page, folder_elements,
                   page_gets, export_gets, skipped, prev_stories, page_all_seen,
                   empty_at, fetch_failed, folder_dup, crawl_end>>
    /\ UNCHANGED dashboardVars

\* line 204: (story_id, f"[FOLDER: {folder_title}] {title}")
FolderStory(f, n) ==
    <<IdStr(n), FolderPrefix \o FolderTitle(f) \o <<"]", " ">> \o TitleOf(n)>>

\* lines 301-309: the folder's first story is added unless seen
ExpandFolderStory ==
    /\ pc = "folders"
    /\ folder_info_list # <<>>
    /\ \E n \in {m \in StoryNums : m <= Cardinality(seen_story_ids) + 1} :
          LET folder_story == FolderStory(Head(folder_info_list), n)
              story_id == folder_story[1]
              isnew == IsNew(story_id, seen_story_ids)
          IN  /\ all_stories' = IF isnew THEN Append(all_stories, folder_story)
                                ELSE all_stories
              /\ seen_story_ids' = IF isnew THEN seen_story_ids \cup {story_id}
                                   ELSE seen_story_ids
              /\ new_stories_on_page' = IF isnew THEN new_stories_on_page + 1
                                        ELSE new_stories_on_page
              /\ folder_dup' = (folder_dup \/ story_id \in seen_story_ids)
    /\ folder_info_list' = Tail(folder_info_list)
    /\ folder_gets' = folder_gets + 1
    /\ UNCHANGED <<mainVars, envVars, dlVars, page,
                   consecutive_duplicate_pages, last_page_count, page_stories,
                   folder_elements,
                   page_gets, export_gets, skipped, prev_stories, page_all_seen,
                   empty_at, fetch_failed, auth_redirect, crawl_end>>
    /\ UNCHANGED dashboardVars

\* line 320
BreakNoStories(ps, p, nfolders) == ps = 0 /\ (p > 1 \/ nfolders = 0)

\* Variant in which the rule of line 325 never fires
BreakNoNewDisabled(nn, p, nfolders) == FALSE

\* line 325
BreakNoNew(nn, p, nfolders) == nn = 0 /\ ~(p = 1 /\ nfolders > 0)

\* line 330
SameCount(ps, last, p) == ps = last /\ p > 1

\* line 332
LoopLimit == 3

\* lines 316-339, the loop test of line 226 and the return of line 352
EvaluatePage ==
    /\ pc = "folders"
    /\ folder_info_list = <<>>
    /\ IF BreakNoStories(page_stories, page, folder_elements)
       THEN /\ crawl_end' = "no_stories"
            /\ ReturnFromCrawl(all_stories)
            /\ UNCHANGED <<page, consecutive_duplicate_pages, last_page_count>>
       ELSE IF BreakNoNew(new_stories_on_page, page, folder_elements)
       THEN /\ crawl_end' = "no_new"
            /\ ReturnFromCrawl(all_stories)
            /\ UNCHANGED <<page, consecutive_duplicate_pages, last_page_count>>
       ELSE IF /\ SameCount(page_stories, last_page_count, page)
               /\ consecutive_duplicate_pages + 1 >= LoopLimit
       THEN /\ crawl_end' = "loop"
            /\ consecutive_duplicate_pages' = consecutive_duplicate_pages + 1
            /\ ReturnFromCrawl(all_stories)
            /\ UNCHANGED <<page, last_page_count>>
       ELSE /\ consecutive_duplicate_pages' =
                  IF SameCount(page_stories, last_page_count, page)
                  THEN consecutive_duplicate_pages + 1 ELSE 0
            /\ last_page_count' = page_stories
            /\ page' = page + 1
            /\ IF LoopCondition(page + 1)
               THEN /\ pc' = "fetch"
                    /\ UNCHANGED <<driver, quits, ending, exit_code, dlVars, crawl_end>>
               ELSE /\ crawl_end' = "ceiling"
                    /\ ReturnFromCrawl(all_stories)
    /\ UNCHANGED <<envVars, all_stories, seen_story_ids, page_stories,
                   new_stories_on_page, folder_elements, folder_info_list,
                   page_gets, folder_gets, export_gets, skipped, prev_stories,
                   page_all_seen, empty_at, fetch_failed, auth_redirect, folder_dup>>
    /\ UNCHANGED dashboardVars

----------------------------------------------------------------------------
(* download_all / download_story *)

\* lines 477-486: nothing to download, or the download loop starts.  The
\* locals of get_story_links are gone, and what was observed of its
\* requests is dropped with them (auth_redirect is kept).
StartDownloads ==
    /\ pc = "returned"
    /\ IF stories = <<>>
       THEN /\ Exit("no_stories")
            /\ UNCHANGED <<crawlVars, histVars>>
       ELSE /\ pc' = "download"
            /\ page_gets' = 0
            /\ folder_gets' = 0
            /\ prev_stories' = <<>>
            /\ page_all_seen' = FALSE
            /\ empty_at' = 0
            /\ folder_dup' = FALSE
            /\ crawl_end' = ""
            /\ UNCHANGED <<export_gets, skipped, fetch_failed, auth_redirect>>
            /\ page' = 1
            /\ all_stories' = <<>>
            /\ seen_story_ids' = {}
            /\ consecutive_duplicate_pages' = 0
            /\ last_page_count' = 0
            /\ page_stories' = 0
            /\ new_stories_on_page' = 0
            /\ folder_elements' = 0
            /\ folder_info_list' = <<>>
            /\ UNCHANGED <<driver, quits, ending, exit_code>>
    /\ successful' = 0
    /\ failed' = 0
    /\ UNCHANGED <<envVars, stories, idx>>
    /\ UNCHANGED dashboardVars

\* The name under which the browser saves an export is the site's choice
\* (line 445 takes whatever new *.epub appeared): the canonical name or the
\* story's display title.
ExportStems(story_id, title) ==
    {PreferredStem(story_id, title), DropChars(title, ForbiddenChars)}

\* The browser does not overwrite: a taken name gets a " (1)" suffix
SavedAs(stem, epubs) ==
    IF stem \in epubs THEN stem \o <<" ", "(", "1", ")">> ELSE stem

CurrentId    == stories[idx][1]
CurrentTitle == stories[idx][2]

\* One iteration of the loop of download_all (lines 488-496) after
\* download_story returned ok
Tally(ok) ==
    /\ successful' = IF ok THEN successful + 1 ELSE successful
    /\ failed' = IF ok THEN failed ELSE failed + 1
    /\ idx' = idx + 1
    /\ UNCHANGED stories

\* lines 420-424: already on disk, return True
DownloadSkip ==
    /\ pc = "download"
    /\ idx <= Len(stories)
    /\ is_story_already_downloaded(CurrentId, CurrentTitle, files)
    /\ skipped' = skipped + 1
    /\ Tally(TRUE)
    /\ UNCHANGED <<mainVars, envVars, crawlVars, page_gets, folder_gets, export_gets,
                   prev_stories, page_all_seen, empty_at, fetch_failed,
                   auth_redirect, folder_dup, crawl_end>>
    /\ UNCHANGED dashboardVars

\* download_story without its except clause (lines 469-471): the error of
\* one item reaches main() and ends the run
DownloadRaisesAborts ==
    /\ pc = "download"
    /\ idx <= Len(stories)
    /\ ~is_story_already_downloaded(CurrentId, CurrentTitle, files)
    /\ export_gets' = export_gets + 1
    /\ failed' = failed + 1
    /\ Exit("error")
    /\ UNCHANGED <<envVars, crawlVars, stories, idx, successful, page_gets,
                   folder_gets, skipped, prev_stories, page_all_seen, empty_at,
                   fetch_failed, auth_redirect, folder_dup, crawl_end>>
    /\ UNCHANGED dashboardVars

\* lines 437-439, 469-471: the navigation to the export raises
DownloadRaises ==
    /\ pc = "download"
    /\ idx <= Len(stories)
    /\ ~is_story_already_downloaded(CurrentId, CurrentTitle, files)
    /\ export_gets' = export_gets + 1
    /\ Tally(FALSE)
    /\ UNCHANGED <<mainVars, envVars, crawlVars, page_gets, folder_gets, skipped,
                   prev_stories, page_all_seen, empty_at, fetch_failed,
                   auth_redirect, folder_dup, crawl_end>>
    /\ UNCHANGED dashboardVars

\* What the browser has written of an export when the program looks: on a
\* slow site the file can be there without its whole content
Written(s) == IF s.slow THEN BOOLEAN ELSE {TRUE}

\* wait_for_download (lines 354-377): True as soon as the file shows the
\* same non-zero size twice (line 367); when the time is up, whether the
\* file exists (line 377)
wait_for_download(filename, epubs, partial) ==
    IF filename \in epubs /\ filename \notin partial
    THEN TRUE
    ELSE filename \in epubs

\* lines 445-459: a new *.epub is there after two seconds; it is renamed
\* to the preferred name, or keeps its name when the rename fails.  Its
\* size is not looked at.
DownloadFast ==
    /\ pc = "download"
    /\ idx <= Len(stories)
    /\ ~is_story_already_downloaded(CurrentId, CurrentTitle, files)
    /\ export_gets' = export_gets + 1
    /\ \E stem \in ExportStems(CurrentId, CurrentTitle), renamed \in BOOLEAN,
          whole \in Written(site) :
          LET downloaded_file == SavedAs(stem, files)
              preferred == PreferredStem(CurrentId, CurrentTitle)
              kept == IF renamed \/ downloaded_file = preferred
                      THEN preferred ELSE downloaded_file
          IN  /\ downloaded_file \notin files
              /\ files' = files \cup {kept}
              /\ incomplete' = IF whole THEN incomplete
                               ELSE incomplete \cup {kept}
    /\ Tally(TRUE)
    /\ UNCHANGED <<mainVars, site, run, first_run, crawlVars, page_gets, folder_gets,
                   skipped, prev_stories, page_all_seen, empty_at, fetch_failed,
                   auth_redirect, folder_dup, crawl_end>>
    /\ UNCHANGED dashboardVars

\* lines 460-467 with wait_for_download: no new *.epub after two seconds;
\* the file arrives later under the browser's name, or never.
\* wait_for_download answers for the preferred name only.
DownloadLate ==
    /\ pc = "download"
    /\ idx <= Len(stories)
    /\ ~is_story_already_downloaded(CurrentId, CurrentTitle, files)
    /\ export_gets' = export_gets + 1
    /\ \E stem \in ExportStems(CurrentId, CurrentTitle), arrives \in BOOLEAN,
          whole \in Written(site) :
          LET downloaded_file == SavedAs(stem, files)
              preferred == PreferredStem(CurrentId, CurrentTitle)
          IN  /\ downloaded_file \notin files
              /\ files' = IF arrives THEN files \cup {downloaded_file} ELSE files
              /\ incomplete' = IF arrives /\ ~whole
                               THEN incomplete \cup {downloaded_file}
                               ELSE incomplete
              /\ Tally(wait_for_download(preferred, files', incomplete'))
    /\ UNCHANGED <<mainVars, site, run, first_run, crawlVars, page_gets, folder_gets,
                   skipped, prev_stories, page_all_seen, empty_at, fetch_failed,
                   auth_redirect, folder_dup, crawl_end>>
    /\ UNCHANGED dashboardVars

\* lines 498-502: the summary; main() closes the browser
FinishDownloads ==
    /\ pc = "download"
    /\ idx > Len(stories)
    /\ Exit("completed")
    /\ UNCHANGED <<envVars, crawlVars, dlVars, histVars>>
    /\ UNCHANGED dashboardVars

----------------------------------------------------------------------------
(* Specifications *)

Next ==
    \/ InitDriver
    \/ LoginOk
    \/ LoginFails
    \/ FetchPageRaises
    \/ FetchPageLogin
    \/ FetchPageOk
    \/ ExpandFolderNone
    \/ ExpandFolderLogin
    \/ ExpandFolderStory
    \/ EvaluatePage
    \/ StartDownloads
    \/ DownloadSkip
    \/ DownloadRaises
    \/ DownloadFast
    \/ DownloadLate
    \/ FinishDownloads

\* One run of the program against any behaviour of the site
Spec == Init /\ [][Next]_vars

\* The program is started a second time on the same output directory, after
\* a run that went through its whole list and reported no failed download
Rerun ==
    /\ pc = "exit"
    /\ run = 1
    /\ ending = "completed"
    /\ failed = 0
    /\ run' = 2
    /\ first_run' = [stories |-> stories, failed |-> failed, ending |-> ending]
    /\ pc' = "init"
    /\ driver' = "none"
    /\ quits' = 0
    /\ ending' = ""
    /\ exit_code' = -1
    /\ page' = 1
    /\ all_stories' = <<>>
    /\ seen_story_ids' = {}
    /\ consecutive_duplicate_pages' = 0
    /\ last_page_count' = 0
    /\ page_stories' = 0
    /\ new_stories_on_page' = 0
    /\ folder_elements' = 0
    /\ folder_info_list' = <<>>
    /\ stories' = <<>> /\ idx' = 1 /\ successful' = 0 /\ failed' = 0
    /\ page_gets' = 0 /\ folder_gets' = 0 /\ export_gets' = 0 /\ skipped' = 0
    /\ prev_stories' = <<>>
    /\ page_all_seen' = FALSE
    /\ empty_at' = 0
    /\ fetch_failed' = 0
    /\ auth_redirect' = FALSE
    /\ folder_dup' = FALSE
    /\ crawl_end' = ""
    /\ UNCHANGED <<site, files, incomplete>>
    /\ UNCHANGED dashboardVars

InitListing ==
    /\ RunStart
    /\ site \in {s \in Listings : s.pages * s.per <= MaxListingPages}
    /\ files = {}
    /\ incomplete = {}
    /\ run = 1
    /\ first_run = NoRun
    /\ NoDashboard

NextListing == Next \/ Rerun

\* Two runs against an unchanged listing of distinct stories
SpecListing == InitListing /\ [][NextListing]_vars

\* Items handed to download_story: identity and display title
DirIds == {IdStr(42), IdStr(7)}
DirTitles == {<<"M", "y", " ", "S", "t", "o", "r", "y">>,
              <<"F", "o", "x">>,
              <<"T", "a", "l", "e">>,
              <<"x", "?">>}
DirItems == {<<i, t>> : i \in DirIds, t \in DirTitles}

\* Stems of *.epub files an output directory can hold before the run: the
\* names possible_files looks for and names that only resemble a title
DirStems ==
    UNION {PossibleStems(it[1], it[2]) : it \in DirItems}
    \cup {<<"F", "o", "x", "e", "s", "_", "1">>,
          <<"9", "_", "T", "a", "l">>,
          <<"O", "l", "d", " ", "T", "a", "l", "e", "s">>}

\* download_all at its loop with a one-item list, on an output directory
\* that already holds files, some of them left empty or partly written by
\* a run that was interrupted
InitDir ==
    /\ pc = "download"
    /\ driver = "open"
    /\ quits = 0
    /\ ending = ""
    /\ exit_code = -1
    /\ CrawlStart
    /\ \E it \in DirItems : stories = <<it>>
    /\ idx = 1 /\ successful = 0 /\ failed = 0
    /\ page_gets = 0 /\ folder_gets = 0 /\ export_gets = 0 /\ skipped = 0
    /\ prev_stories = <<>>
    /\ page_all_seen = FALSE
    /\ empty_at = 0
    /\ fetch_failed = 0
    /\ auth_redirect = FALSE
    /\ folder_dup = FALSE
    /\ crawl_end = ""
    /\ site \in {AnySite, SlowSite}
    /\ files \in {d \in SUBSET DirStems : Cardinality(d) <= MaxDirFiles}
    /\ incomplete \in (IF site.slow THEN SUBSET files ELSE {{}})
    /\ run = 1
    /\ first_run = NoRun
    /\ NoDashboard

NextDir ==
    \/ DownloadSkip
    \/ DownloadRaises
    \/ DownloadFast
    \/ DownloadLate
    \/ FinishDownloads

\* The download of one item into any output directory
SpecDir == InitDir /\ [][NextDir]_vars

----------------------------------------------------------------------------
(* The dashboard: start and stop of the proxy subprocess *)

\* The test of the handle left out
HandleHeldNever(h) == FALSE

\* `if proxy_process:` (proxy.py lines 439 and 463, ollama_model_manager.py
\* lines 2230 and 2514)
HandleHeld(h) == h # None

\* What can go wrong in start_proxy_server after the test of the handle:
\* the write of the script (lines 446-447), Popen (line 449), the write of
\* the server state (line 452)
StartOutcomes == {"ok", "write_fails", "popen_fails", "db_fails"}

\* The same for ollama_model_manager.py (lines 2500-2503), which stores no
\* server state
ManagerStartOutcomes == {"ok", "write_fails", "popen_fails"}

\* subprocess.Popen([sys.executable, 'ollama_openai_proxy.py'])
Popen ==
    /\ spawned' = spawned + 1
    /\ alive' = alive \cup {spawned + 1}
    /\ proxy_process' = spawned + 1

\* proxy_process.wait(timeout=5) after terminate(): a subprocess that
\* already exited is waited for at once; a running one ends in time or not
WaitOutcomes == IF proxy_process \in alive THEN BOOLEAN ELSE {TRUE}

\* start_proxy_server(model_name) (proxy.py lines 430-457); ok is its
\* return value
start_proxy_server(model_name, outcome, ok) ==
    IF HandleHeld(proxy_process)
    THEN /\ ok = FALSE
         /\ UNCHANGED <<proxy_process, spawned, alive, script, server_state>>
    ELSE CASE outcome = "write_fails" ->
                /\ ok = FALSE
                /\ UNCHANGED <<proxy_process, spawned, alive, script, server_state>>
           [] outcome = "popen_fails" ->
                /\ ok = FALSE
                /\ script' = model_name
                /\ UNCHANGED <<proxy_process, spawned, alive, server_state>>
           [] outcome = "db_fails" ->
                /\ ok = FALSE
                /\ script' = model_name
                /\ Popen
                /\ UNCHANGED server_state
           [] OTHER ->
                /\ ok = TRUE
                /\ script' = model_name
                /\ Popen
                /\ server_state' = [is_running |-> TRUE, model_name |-> model_name]

\* stop_proxy_server() (proxy.py lines 459-480): terminate, wait, kill
\* when the wait raises, the handle cleared in the finally clause, then
\* cleanup_proxy_files and clear_server_state
stop_proxy_server(in_time, ok) ==
    IF HandleHeld(proxy_process)
    THEN /\ ok = TRUE
         /\ alive' = alive \ {proxy_process}
         /\ proxy_process' = None
         /\ script' = NoScript
         /\ server_state' = NoRow
    ELSE /\ ok = FALSE
         /\ UNCHANGED <<proxy_process, alive, script, server_state>>

\* ServerStateDB.get_server_state() (database.py lines 198-214), which
\* get_proxy_status() returns as it is (proxy.py lines 494-496)
get_proxy_status == server_state

\* is_proxy_running() (proxy.py lines 482-492): True when the handle is
\* held and poll() finds the subprocess running, else what is stored
is_proxy_running ==
    IF HandleHeld(proxy_process) /\ proxy_process \in alive
    THEN TRUE
    ELSE server_state.is_running

\* cleanup_on_shutdown() (proxy.py lines 498-506): stop_proxy_server when
\* the handle is held, cleanup_proxy_files in any case; the handle is gone
\* with the process
cleanup_on_shutdown ==
    /\ alive' = IF HandleHeld(proxy_process) THEN alive \ {proxy_process} ELSE alive
    /\ server_state' = IF HandleHeld(proxy_process) THEN NoRow ELSE server_state
    /\ proxy_process' = None
    /\ script' = NoScript

\* A client sends POST /api/server/start or /api/server/stop (main.py
\* lines 152-158, ollama_model_manager.py lines 2226 and 2510).  The
\* handlers are coroutines without a point of suspension, so the event
\* loop serves the requests it holds one at a time, in any order.
Submit ==
    /\ up
    /\ requests + pending.start + pending.stop < MaxRequests
    /\ \E op \in {"start", "stop"} :
          pending' = [pending EXCEPT ![op] = @ + 1]
    /\ UNCHANGED <<app, up, proxy_process, spawned, alive, script, server_state,
                   requests, last_op, response, scraperVars, dbVars, handlerVars>>

\* POST /api/server/start of main.py (routes.py lines 206-212)
StartServerMain ==
    /\ app = "main" /\ up
    /\ pending.start > 0
    /\ pending' = [pending EXCEPT !.start = @ - 1]
    /\ requests' = requests + 1
    /\ last_op' = "start"
    /\ \E model \in Models, outcome \in StartOutcomes, success \in BOOLEAN :
          /\ start_proxy_server(model, outcome, success)
          /\ response' = IF success THEN "started" ELSE "Server already running"
    /\ UNCHANGED <<app, up, scraperVars, dbVars, handlerVars>>

\* POST /api/server/stop of main.py (routes.py lines 214-220)
StopServerMain ==
    /\ app = "main" /\ up
    /\ pending.stop > 0
    /\ pending' = [pending EXCEPT !.stop = @ - 1]
    /\ requests' = requests + 1
    /\ last_op' = "stop"
    /\ \E in_time \in WaitOutcomes, success \in BOOLEAN :
          /\ stop_proxy_server(in_time, success)
          /\ response' = IF success THEN "stopped" ELSE "Server not running"
    /\ UNCHANGED <<app, up, spawned, scraperVars, dbVars, handlerVars>>

\* The end of the lifespan of main.py (lines 61-64): cleanup_on_shutdown
\* (proxy.py lines 498-506), then the process is gone
ShutdownMain ==
    /\ app = "main" /\ up
    /\ up' = FALSE
    /\ last_op' = "shutdown"
    /\ response' = ""
    /\ cleanup_on_shutdown
    /\ pending' = NoPending
    /\ UNCHANGED <<app, spawned, requests, scraperVars, dbVars, handlerVars>>

\* start_server of ollama_model_manager.py (lines 2226-2508): an exception
\* of the write or of Popen is not caught and gives a 500 answer
StartServerManager ==
    /\ app = "manager" /\ up
    /\ pending.start > 0
    /\ pending' = [pending EXCEPT !.start = @ - 1]
    /\ requests' = requests + 1
    /\ last_op' = "start"
    /\ IF HandleHeld(proxy_process)
       THEN /\ response' = "Server already running"
            /\ UNCHANGED <<proxy_process, spawned, alive, script>>
       ELSE \E model \in Models, outcome \in ManagerStartOutcomes :
              CASE outcome = "write_fails" ->
                     /\ response' = "Internal Server Error"
                     /\ UNCHANGED <<proxy_process, spawned, alive, script>>
                [] outcome = "popen_fails" ->
                     /\ response' = "Internal Server Error"
                     /\ script' = model
                     /\ UNCHANGED <<proxy_process, spawned, alive>>
                [] OTHER ->
                     /\ response' = "started"
                     /\ script' = model
                     /\ Popen
    /\ UNCHANGED <<app, up, server_state, scraperVars, dbVars, handlerVars>>

\* stop_server of ollama_model_manager.py (lines 2510-2524): the wait is
\* not in a try block, so a subprocess that does not end within five
\* seconds makes the handler raise at line 2516, before line 2517
StopServerManager ==
    /\ app = "manager" /\ up
    /\ pending.stop > 0
    /\ pending' = [pending EXCEPT !.stop = @ - 1]
    /\ requests' = requests + 1
    /\ last_op' = "stop"
    /\ IF HandleHeld(proxy_process)
       THEN \E in_time \in WaitOutcomes :
              IF in_time
              THEN /\ alive' = alive \ {proxy_process}
                   /\ proxy_process' = None
                   /\ script' = NoScript
                   /\ response' = "stopped"
              ELSE /\ response' = "Internal Server Error"
                   /\ UNCHANGED <<proxy_process, alive, script>>
       ELSE /\ response' = "Server not running"
            /\ UNCHANGED <<proxy_process, alive, script>>
    /\ UNCHANGED <<app, up, spawned, server_state, scraperVars, dbVars, handlerVars>>

\* The end of the lifespan of ollama_model_manager.py (lines 325-340):
\* terminate, wait or kill, handle cleared, cleanup_proxy_files
ShutdownManager ==
    /\ app = "manager" /\ up
    /\ up' = FALSE
    /\ last_op' = "shutdown"
    /\ response' = ""
    /\ alive' = IF HandleHeld(proxy_process) THEN alive \ {proxy_process} ELSE alive
    /\ proxy_process' = None
    /\ script' = NoScript
    /\ pending' = NoPending
    /\ UNCHANGED <<app, spawned, server_state, requests, scraperVars, dbVars, handlerVars>>

\* init_db drops table model_usage and creates it empty (database.py
\* lines 17-31, ollama_model_manager.py lines 45-60); an existing table
\* server_state is kept (database.py lines 41-50)
init_db ==
    /\ model_usage' = {}
    /\ usage_calls' = NoCalls
    /\ UNCHANGED server_state

\* The dashboard is started (again): the module is loaded with
\* proxy_process = None, and init_db runs (main.py line 46,
\* ollama_model_manager.py line 279)
Boot ==
    /\ ~up
    /\ up' = TRUE
    /\ proxy_process' = None
    /\ init_db
    /\ last_op' = "boot"
    /\ response' = ""
    /\ UNCHANGED <<app, spawned, alive, script, pending, requests, db_calls,
                   db_op, scraperVars, handlerVars>>

\* The subprocess ends on its own (the port is taken, the script fails)
SubprocessExits ==
    /\ \E p \in alive : alive' = alive \ {p}
    /\ UNCHANGED <<app, up, proxy_process, spawned, script, server_state,
                   pending, requests, last_op, response, scraperVars, dbVars, handlerVars>>

\* Either dashboard, not yet started, next to an idle downloader
InitProxy ==
    /\ RunStart
    /\ site = AnySite
    /\ files = {}
    /\ incomplete = {}
    /\ run = 1
    /\ first_run = NoRun
    /\ app \in Apps
    /\ up = FALSE
    /\ proxy_process = None
    /\ spawned = 0
    /\ alive = {}
    /\ script = NoScript
    /\ server_state = NoRow
    /\ pending = NoPending
    /\ requests = 0
    /\ last_op = ""
    /\ response = ""
    /\ NoDatabase
    /\ NoHandler

NextProxy ==
    \/ Boot
    \/ Submit
    \/ StartServerMain
    \/ StopServerMain
    \/ ShutdownMain
    \/ StartServerManager
    \/ StopServerManager
    \/ ShutdownManager
    \/ SubprocessExits

\* Start and stop requests sent to a dashboard, also several at a time,
\* its shutdowns and restarts
SpecProxy == InitProxy /\ [][NextProxy]_vars

----------------------------------------------------------------------------
(* The table model_usage (database.py) *)

MaxCalls == 3

\* What a client sends as data['notes'], data['rating'] (written as text),
\* data['performance_notes'], and json.dumps(data['config'])
Notes == {"a", "b"}
Ratings == {"5"}
PerformanceNotes == {"p"}
Configs == {"c1", "c2"}

\* The rows of a model: the columns id, last_used and created_at are left
\* out, no operation reads them
Rows(model_name) == {r \in model_usage : r.model_name = model_name}

NoUsage == [model_name |-> "none", times_used |-> 0, notes |-> NULL,
            rating |-> NULL, performance_notes |-> NULL,
            custom_params |-> NULL]

\* fetchone of the rows of the model, None without one
get_usage(model_name) ==
    IF Rows(model_name) = {} THEN NoUsage
    ELSE CHOOSE r \in Rows(model_name) : TRUE

NewUsageRowZero(model_name) ==
    [NoUsage EXCEPT !.model_name = model_name]

\* INSERT ... (model_name, last_used, times_used) VALUES (?, ?, 1)
NewUsageRow(model_name) ==
    [NoUsage EXCEPT !.model_name = model_name, !.times_used = 1]

update_usage(model_name) ==
    model_usage' =
        IF Rows(model_name) # {}
        THEN {IF r.model_name = model_name
              THEN [r EXCEPT !.times_used = @ + 1] ELSE r : r \in model_usage}
        ELSE model_usage \cup {NewUsageRow(model_name)}

UpdatedAll(r, notes, rating, performance_notes, custom_params) ==
    [r EXCEPT !.notes = notes,
              !.rating = rating,
              !.performance_notes = performance_notes,
              !.custom_params = custom_params]

\* UPDATE model_usage SET <the fields passed> (an UPDATE without a field is
\* not run)
Updated(r, notes, rating, performance_notes, custom_params) ==
    [r EXCEPT !.notes = IF notes # NULL THEN notes ELSE @,
              !.rating = IF rating # NULL THEN rating ELSE @,
              !.performance_notes =
                  IF performance_notes # NULL THEN performance_notes ELSE @,
              !.custom_params =
                  IF custom_params # NULL THEN custom_params ELSE @]

save_notes(model_name, notes, rating, performance_notes, custom_params) ==
    model_usage' =
        IF Rows(model_name) # {}
        THEN {IF r.model_name = model_name
              THEN Updated(r, notes, rating, performance_notes, custom_params)
              ELSE r : r \in model_usage}
        ELSE model_usage \cup
             {[model_name |-> model_name, times_used |-> 0, notes |-> notes,
               rating |-> rating, performance_notes |-> performance_notes,
               custom_params |-> custom_params]}

\* POST /api/models/usage, and a model loaded with success (routes.py
\* lines 99-105)
UpdateUsage ==
    /\ up
    /\ db_calls < MaxCalls
    /\ \E m \in Models :
          /\ update_usage(m)
          /\ usage_calls' = [usage_calls EXCEPT ![m] = @ + 1]
          /\ db_op' = [NoOp EXCEPT !.op = "update_usage", !.model_name = m]
    /\ db_calls' = db_calls + 1
    /\ UNCHANGED <<proxyVars, scraperVars, handlerVars>>

\* POST /api/models/notes: a key the client left out is passed as None
SaveNotes ==
    /\ up
    /\ db_calls < MaxCalls
    /\ \E m \in Models, n \in Notes \cup {NULL}, r \in Ratings \cup {NULL},
          pn \in PerformanceNotes \cup {NULL} :
          /\ save_notes(m, n, r, pn, NULL)
          /\ db_op' = [op |-> "save_notes", model_name |-> m, notes |-> n,
                       rating |-> r, performance_notes |-> pn,
                       custom_params |-> NULL]
    /\ db_calls' = db_calls + 1
    /\ UNCHANGED <<usage_calls, proxyVars, scraperVars, handlerVars>>

\* POST /api/models/config
SaveConfig ==
    /\ up
    /\ db_calls < MaxCalls
    /\ \E m \in Models, c \in Configs :
          /\ save_notes(m, NULL, NULL, NULL, c)
          /\ db_op' = [NoOp EXCEPT !.op = "save_notes", !.model_name = m,
                                   !.custom_params = c]
    /\ db_calls' = db_calls + 1
    /\ UNCHANGED <<usage_calls, proxyVars, scraperVars, handlerVars>>

InitDB ==
    /\ InitProxy
    /\ app = "main"

NextDB ==
    \/ Boot
    \/ ShutdownMain
    \/ UpdateUsage
    \/ SaveNotes
    \/ SaveConfig

\* The calls made to ModelDB while the dashboard runs, its shutdowns and
\* restarts
SpecDB == InitDB /\ [][NextDB]_vars

----------------------------------------------------------------------------
(* The generated proxy: OpenAICompatibleHandler.do_POST (proxy.py) *)

Prompts == {"hi", "yo"}
UserMessage(text) == [role |-> "user", content |-> text]

\* Bytes that json.loads rejects
Garbage == [NoBytes EXCEPT !.kind = "garbage"]

\* The bytes of a JSON object, by the keys of it that do_POST reads
JsonBodies ==
    {[kind |-> "json", has_prompt |-> hp, prompt |-> p, has_messages |-> hm,
      messages |-> ms, stream |-> st] :
        hp \in BOOLEAN, p \in Prompts \cup {""}, hm \in BOOLEAN,
        ms \in {<<>>} \cup {<<UserMessage(t)>> : t \in Prompts},
        st \in BOOLEAN}

Bodies ==
    {NoBytes, Garbage} \cup
    {b \in JsonBodies : /\ b.has_prompt <=> b.prompt # ""
                        /\ b.has_messages <=> b.messages # <<>>}

ChatPath == "/v1/chat/completions"
LegacyPath == "/v1/completions"
ApiPaths == {"/v1/api/chat", "/v1/api/generate"}
Paths == {ChatPath, LegacyPath, "/v1/embeddings"} \cup ApiPaths

\* self.path[3:]
OllamaPath(p) == IF p = "/v1/api/chat" THEN "/api/chat" ELSE "/api/generate"

\* What a client can send: the request with its body, then nothing or more
\* bytes on the same connection, and it closes its side of the connection
\* or keeps it open while it waits for the answer
Requests ==
    {[path |-> p, body |-> b, extra |-> x, closes |-> c] :
        p \in Paths, b \in Bodies,
        x \in {<<>>} \cup {<<e>> : e \in Bodies \ {NoBytes}},
        c \in BOOLEAN}

\* The Content-Length header of the request
ContentLength(r) == IF r.body = NoBytes THEN 0 ELSE 1

\* MODEL_NAME of the script that runs
MODEL_NAME == script

\* What requests.post can do: Ollama answers 200, answers an error, or
\* cannot be reached
PostOutcomes == {"ok", "error", "raises"}

\* Lines 200-201: rfile.read(content_length) returns that many bytes when
\* they come, fewer (here none) when the client has closed its side, and
\* waits as long as neither is the case
ReadBody ==
    /\ hpc = "read"
    /\ IF ContentLength(request) = 0
       THEN post_data' = NoBytes /\ UNCHANGED rfile
       ELSE IF rfile # <<>>
            THEN post_data' = Head(rfile) /\ rfile' = Tail(rfile)
            ELSE /\ request.closes
                 /\ post_data' = NoBytes
                 /\ UNCHANGED rfile
    /\ hpc' = "parse"
    /\ UNCHANGED <<request, path, upstream, reply, proxyVars, dbVars,
                   scraperVars>>

\* Lines 206-267: a path under /v1/api/ is forwarded to Ollama, a chat
\* request that parses with the model replaced
ForwardOllamaApi ==
    /\ hpc = "parse"
    /\ path \in ApiPaths
    /\ \E outcome \in PostOutcomes :
          IF outcome = "raises"
          THEN reply' = "500" /\ UNCHANGED upstream
          ELSE /\ upstream' = Append(upstream,
                     [url |-> OllamaPath(path),
                      model |-> IF OllamaPath(path) = "/api/chat"
                                   /\ post_data.kind = "json"
                                THEN MODEL_NAME ELSE "as sent",
                      body |-> post_data])
               /\ reply' = "forwarded"
    /\ hpc' = "done"
    /\ UNCHANGED <<request, path, rfile, post_data, proxyVars, dbVars,
                   scraperVars>>

\* Lines 269-274
InvalidJson ==
    /\ hpc = "parse"
    /\ path \notin ApiPaths
    /\ post_data.kind # "json"
    /\ reply' = "400 Invalid JSON"
    /\ hpc' = "done"
    /\ UNCHANGED <<request, path, rfile, post_data, upstream, proxyVars,
                   dbVars, scraperVars>>

\* The answer of lines 303-384 by the request's stream flag and what Ollama
\* answered
ChatReply(stream, outcome) ==
    IF stream THEN "chat.completion.chunk"
    ELSE IF outcome = "error" THEN "502"
    ELSE "chat.completion"

\* Lines 276-388: messages and stream are taken from the parsed body and
\* sent to /api/chat with the model of the script
ChatCompletions ==
    /\ hpc = "parse"
    /\ path = ChatPath
    /\ post_data.kind = "json"
    /\ \E outcome \in PostOutcomes :
          IF outcome = "raises"
          THEN reply' = "500" /\ UNCHANGED upstream
          ELSE /\ upstream' = Append(upstream,
                     [url |-> "/api/chat",
                      model |-> MODEL_NAME,
                      body |-> [NoBytes EXCEPT
                                  !.kind = "json",
                                  !.has_messages = TRUE,
                                  !.messages = post_data.messages,
                                  !.stream = post_data.stream]])
               /\ reply' = ChatReply(post_data.stream, outcome)
    /\ hpc' = "done"
    /\ UNCHANGED <<request, path, rfile, post_data, proxyVars, dbVars,
                   scraperVars>>

\* Lines 390-403: the messages made of the prompt are put into the
\* request_data of this call, self.path is changed and do_POST is called
\* again; the new call starts at line 200 with its own post_data and
\* request_data, and nothing follows it in this one
Completions ==
    /\ hpc = "parse"
    /\ path = LegacyPath
    /\ post_data.kind = "json"
    /\ path' = ChatPath
    /\ hpc' = "read"
    /\ UNCHANGED <<request, rfile, post_data, upstream, reply, proxyVars,
                   dbVars, scraperVars>>

\* Lines 405-406
NotFound ==
    /\ hpc = "parse"
    /\ path \notin ApiPaths \cup {ChatPath, LegacyPath}
    /\ post_data.kind = "json"
    /\ reply' = "404"
    /\ hpc' = "done"
    /\ UNCHANGED <<request, path, rfile, post_data, upstream, proxyVars,
                   dbVars, scraperVars>>

\* The dashboard of main.py after a start request that succeeded
ProxyStarted(m) ==
    /\ app = "main"
    /\ up = TRUE
    /\ proxy_process = 1
    /\ spawned = 1
    /\ alive = {1}
    /\ script = m
    /\ server_state = [is_running |-> TRUE, model_name |-> m]
    /\ pending = NoPending
    /\ requests = 1
    /\ last_op = "start"
    /\ response = "started"

\* The proxy runs and do_POST is entered for a request: the headers are
\* parsed, the body and what follows it are still to be read
InitHandler ==
    /\ RunStart
    /\ site = AnySite
    /\ files = {}
    /\ incomplete = {}
    /\ run = 1
    /\ first_run = NoRun
    /\ \E m \in Models : ProxyStarted(m)
    /\ NoDatabase
    /\ request \in Requests
    /\ path = request.path
    /\ rfile = (IF request.body = NoBytes THEN <<>> ELSE <<request.body>>)
                \o request.extra
    /\ hpc = "read"
    /\ post_data = NoBytes
    /\ upstream = <<>>
    /\ reply = ""

NextHandler ==
    \/ ReadBody
    \/ ForwardOllamaApi
    \/ InvalidJson
    \/ ChatCompletions
    \/ Completions
    \/ NotFound

\* One POST request served by the proxy
SpecHandler == InitHandler /\ [][NextHandler]_vars

----------------------------------------------------------------------------
(* Properties *)

NoDupIds(s) == \A i, j \in 1..Len(s) : i # j => s[i][1] # s[j][1]

\* The items of all the pages of a fixed listing, in page order
RECURSIVE ListingItems(_, _)
ListingItems(s, p) ==
    IF p = 0 THEN <<>>
    ELSE ListingItems(s, p - 1) \o
         [i \in 1..s.per |-> <<IdStr(ListingPage(s, p)[i]), TitleOf(ListingPage(s, p)[i])>>]

\* C1: the list built and returned by get_story_links never holds two
\* entries with the same story identity, also when a folder's first story
\* is a story already seen on a page.
C1_NoDuplicateIdentities == NoDupIds(all_stories) /\ NoDupIds(stories)

\* A folder's first story had been seen directly, and a list was returned
C1_Witness == pc = "returned" /\ folder_dup /\ stories # <<>>

\* C2: get_story_links never requests more listing pages than the ceiling,
\* and once page p showed no story (on page 1: and no folder) exactly the
\* pages 1..p have been requested and the crawl stops: it is about to take
\* the "no stories" exit or has returned by it.
C2_PaginationStops ==
    /\ page_gets <= max_pages
    /\ empty_at # 0 =>
         /\ page_gets = empty_at
         /\ \/ pc = "folders" /\ folder_info_list = <<>> /\ page_stories = 0
            \/ pc \in {"returned", "exit"} /\ crawl_end \in {"empty", "no_stories"}

\* The crawl was ended by the page ceiling
C2_Witness == pc = "returned" /\ crawl_end = "ceiling" /\ page_gets = max_pages

\* C3: against a listing of K pages (K below the ceiling) of pairwise
\* different stories, without folders, followed by an empty page, a crawl
\* that meets no login redirect and no error returns every story of the
\* K pages in page order.
C3_AllPagesCollected ==
    (/\ pc = "returned"
     /\ site.fixed /\ site.folders = 0 /\ site.pages < max_pages
     /\ ~auth_redirect)
    => stories = ListingItems(site, site.pages)

\* C4: in a second run on the same directory against the unchanged listing,
\* after a first run whose downloads were all reported successful, no
\* export is requested: every item is found on disk.
C4_SecondRunDownloadsNothing ==
    (/\ run = 2
     /\ first_run.ending = "completed" /\ first_run.failed = 0
     /\ stories = first_run.stories
     /\ pc \in {"download", "exit"})
    => export_gets = 0 /\ skipped = idx - 1

\* C5: below the page ceiling the crawl never stops after a page that
\* added a new identity.
C5_NoStopAfterNewIdentity ==
    [][(/\ pc = "folders" /\ folder_info_list = <<>>
        /\ Len(all_stories) > Len(prev_stories)
        /\ page < max_pages)
       => pc' = "fetch"]_vars

\* C6: when a page p > 1 shows only identities seen before it, the list is
\* what it was before page p, and the next step returns that list without
\* requesting another page.
C6_StopOnSeenPage ==
    [][(pc = "folders" /\ page > 1 /\ page_all_seen)
       => /\ all_stories = prev_stories
          /\ pc' = "returned"
          /\ stories' = prev_stories
          /\ page_gets' = page_gets]_vars

\* Page 2 repeated the two stories of page 1 and the crawl returned them
C6_Witness ==
    /\ pc = "returned" /\ crawl_end = "no_new"
    /\ page = 2 /\ page_gets = 2 /\ page_stories = 2
    /\ Len(stories) = 2 /\ stories = prev_stories

\* C7: when the request for listing page 1 fails, the run ends in the error
\* ending with an empty list: no folder was expanded, no other page was
\* requested and no export was requested.
C7_FirstPageFailureAborts ==
    fetch_failed = 1 =>
        /\ pc = "exit" /\ ending = "error"
        /\ stories = <<>> /\ all_stories = <<>>
        /\ page_gets = 1 /\ folder_gets = 0 /\ export_gets = 0

\* The request for page 1 failed and the run is over
C7_Witness == fetch_failed = 1 /\ pc = "exit" /\ driver = "quit"

\* The runs the design calls Aborted and Done
Aborted ==
    /\ pc = "exit"
    /\ \/ ending = "login_failed"
       \/ fetch_failed = 1
       \/ crawl_end = "auth"
Done ==
    /\ pc = "exit"
    /\ ending \in {"completed", "no_stories"}
    /\ crawl_end # "auth"

\* C8: the process exits with 0 when the run ends in Done and with a
\* non-zero status when it ends in Aborted.
C8_ExitCodeTellsOutcome ==
    /\ Done => exit_code = 0
    /\ Aborted => exit_code # 0

\* C9: when the request for a page p > 1 fails, the items collected on the
\* pages before p are the returned list and the run goes through the
\* downloads of that list.
C9_LaterPageFailureKeepsItems ==
    fetch_failed > 1 =>
        /\ stories = prev_stories
        /\ pc = "exit" => (ending = "completed" \/ stories = <<>>)

\* C10: once a listing or folder request has landed on the login surface,
\* no listing page, no folder and no export is requested any more.
C10_AuthLossIsFatal ==
    [][auth_redirect =>
         /\ page_gets' <= page_gets
         /\ folder_gets' <= folder_gets
         /\ export_gets' = export_gets]_vars

C12_SkippedCountedApart ==
    (pc = "exit" /\ ending = "completed") =>
        successful + failed + skipped = Len(stories)

\* C13: when the output directory holds a file named by one of the three
\* templates of the item, whatever else it holds, the existence check
\* answers with an exact match and the item is recorded as skipped without
\* its export being requested.
C13_TemplateFileIsExactMatch ==
    [][(/\ pc = "download"
        /\ idx <= Len(stories)
        /\ \/ CurrentId \o <<"_">> \o SafeTitle(CurrentTitle) \in files
           \/ SafeTitle(CurrentTitle) \in files
           \/ CurrentId \in files) =>
            /\ MatchKind(CurrentId, CurrentTitle, files) = "exact"
            /\ skipped' = skipped + 1
            /\ export_gets' = export_gets
            /\ files' = files]_vars

\* 42_My_Story.epub next to another file, identity 42, label "My Story":
\* skipped, nothing requested
C13_Witness ==
    /\ stories = << <<<<"4", "2">>, <<"M", "y", " ", "S", "t", "o", "r", "y">>>> >>
    /\ <<"4", "2", "_", "M", "y", "_", "S", "t", "o", "r", "y">> \in files
    /\ Cardinality(files) >= 2
    /\ idx = 2
    /\ skipped = 1
    /\ export_gets = 0

\* C14: an item whose label has three characters or fewer never gets a
\* title match, whatever the directory holds, and no item gets a title
\* match against a file whose normalised name has three characters or
\* fewer.
C14_NoFuzzyMatchOnShortNames ==
    \A i \in 1..Len(stories) :
        LET story_id == stories[i][1]
            title == stories[i][2]
        IN  /\ Len(title) <= 3 => MatchKind(story_id, title, files) # "title"
            /\ \A f \in files :
                  Len(Cleaned(f)) <= 3 => MatchKind(story_id, title, {f}) # "title"

\* "Fox" next to Foxes_1.epub, and "Tale" next to 9_Tal.epub: not skipped,
\* the export was requested
C14_Witness ==
    /\ idx = 2
    /\ skipped = 0
    /\ export_gets = 1
    /\ \/ /\ stories[1][2] = <<"F", "o", "x">>
          /\ <<"F", "o", "x", "e", "s", "_", "1">> \in files
       \/ /\ stories[1][2] = <<"T", "a", "l", "e">>
          /\ <<"9", "_", "T", "a", "l">> \in files

\* What a step of the crawl may do with the folder requests
FolderFetchStep ==
    pc \in {"fetch", "folders"} =>
        /\ folder_gets' \in {folder_gets, folder_gets + 1}
        /\ (folder_gets' = folder_gets + 1) =>
              /\ pc = "folders" /\ page = 1
              /\ page_gets' = page_gets
              /\ Len(all_stories') <= Len(all_stories) + 1
              /\ Len(folder_info_list') = Len(folder_info_list) - 1
        /\ (pc = "folders" /\ page = 1 /\ folder_info_list = <<>>) =>
              folder_gets = folder_elements

C16_DownloadedOnlyWhenStable ==
    [][(/\ pc = "download"
        /\ export_gets' = export_gets + 1
        /\ successful' = successful + 1) =>
            \E f \in files' \ files : f \notin incomplete']_vars

\* C17: an empty or partly written file left in the output directory by an
\* interrupted run is not taken for a finished download: the item it
\* belongs to is not skipped, its export is requested again.
C17_PartialFileNotAccepted ==
    [][(/\ pc = "download"
        /\ idx <= Len(stories)
        /\ PreferredStem(CurrentId, CurrentTitle) \in incomplete) =>
            /\ skipped' = skipped
            /\ export_gets' = export_gets + 1]_vars

\* C18: whenever main() has ended after the browser was created, the
\* browser was shut down by exactly one call of driver.quit(), also when
\* the initialisation failed after the browser was created.
C18_DriverQuitOnce ==
    (pc = "exit" /\ driver # "none") => (driver = "quit" /\ quits = 1)

\* A step that serves a start request, a stop request, or shuts the
\* dashboard down
StartStep == requests' = requests + 1 /\ last_op' = "start"
StopStep == requests' = requests + 1 /\ last_op' = "stop"
ShutdownStep == up /\ ~up'

\* What a start request does when the handle is held
RejectedStart ==
    (StartStep /\ proxy_process # None) =>
        /\ spawned' = spawned
        /\ alive' = alive
        /\ proxy_process' = proxy_process
        /\ script' = script
        /\ server_state' = server_state
        /\ response' = "Server already running"

\* C19: after any sequence of start and stop requests at most one proxy
\* subprocess is running, and a start request that finds the handle held
\* spawns nothing, writes nothing and is answered 'Server already running'.
C19_StartIsSingleFlight ==
    /\ [](Cardinality(alive) <= 1)
    /\ [][RejectedStart]_vars

\* start, stop, start, then a start that is rejected: the second
\* subprocess is the only one running
C19_Witness ==
    /\ last_op = "start"
    /\ response = "Server already running"
    /\ spawned = 2
    /\ alive = {2}
    /\ proxy_process = 2
    /\ server_state.is_running

\* What a stop request or a shutdown does to a held handle
ReleasedOnStop ==
    ((StopStep \/ ShutdownStep) /\ proxy_process # None) =>
        /\ proxy_process \notin alive'
        /\ proxy_process' = None
        /\ ~server_state'.is_running

\* C20: when a stop request or a shutdown finds the handle held, then
\* after it, whether the subprocess ended within the wait or not, the
\* subprocess is not running, the handle is cleared (so that a following
\* start passes the test of the handle) and the stored state says not
\* running.
C20_HandleReleasedOnStop == [][ReleasedOnStop]_vars

\* An entry of the list that stands for a folder (line 204)
IsFolderItem(it) == StartsWith(it[2], FolderPrefix)

\* The entries a step added at the end of a list
Added(old, new) == SubSeq(new, Len(old) + 1, Len(new))
Extends(old, new) ==
    Len(new) >= Len(old) /\ SubSeq(new, 1, Len(old)) = old

\* In the list, the folder entries stand together, in folder order, and
\* while page 1 is evaluated nothing follows them
FolderItemsTogether ==
    \A i, j \in 1..Len(all_stories) :
        (i < j /\ IsFolderItem(all_stories[i])) =>
            /\ IsFolderItem(all_stories[j]) =>
                  \A k \in i..j : IsFolderItem(all_stories[k])
            /\ (page = 1 /\ pc \in {"fetch", "folders"}) =>
                  IsFolderItem(all_stories[j])

\* What a step of the crawl adds to the list, and when
DiscoveryStep ==
    (pc \in {"fetch", "folders"}) =>
        /\ Extends(all_stories, all_stories')
        /\ (folder_gets' # folder_gets) =>
              /\ pc = "folders" /\ page = 1 /\ page_gets = 1
              /\ \A k \in 1..Len(Added(all_stories, all_stories')) :
                    /\ IsFolderItem(Added(all_stories, all_stories')[k])
                    /\ StartsWith(Added(all_stories, all_stories')[k][2],
                                  FolderPrefix \o FolderTitle(Head(folder_info_list)))
        /\ (page_gets' # page_gets) =>
              /\ pc = "fetch"
              /\ folder_info_list = <<>>
              /\ page > 1 => folder_gets = folder_gets'
              /\ \A k \in 1..Len(Added(all_stories, all_stories')) :
                    ~IsFolderItem(Added(all_stories, all_stories')[k])
        /\ (page' # page) => (folder_info_list = <<>> /\ pc = "folders")

\* C21: the folders are expanded once, while page 1 is evaluated, after
\* the stories of page 1 were taken and before page 2 is requested; the
\* list therefore holds the stories of page 1, then the folders' stories
\* in folder order, then the new stories of the later pages.
C21_FoldersBetweenPage1AndPage2 ==
    /\ []FolderItemsTogether
    /\ [][DiscoveryStep]_vars

\* A story of page 1, then a folder's story, then a story of page 2
C21_Witness ==
    /\ pc = "returned"
    /\ Len(stories) = 3
    /\ page_gets >= 2
    /\ ~IsFolderItem(stories[1])
    /\ IsFolderItem(stories[2])
    /\ ~IsFolderItem(stories[3])

\* What the crawl does with a folder that gives no story
EmptyFolderStep ==
    /\ (pc = "folders" /\ folder_info_list # <<>>) =>
          /\ pc' = "folders"
          /\ Extends(all_stories, all_stories')
          /\ folder_info_list' = Tail(folder_info_list)
          /\ page' = page
    /\ (pc = "folders" /\ folder_info_list = <<>> /\ page = 1
          /\ folder_elements > 0) =>
          /\ pc' = "fetch"
          /\ page' = 2
          /\ all_stories' = all_stories

\* C22: a folder that shows no story, or whose request or parsing raises,
\* adds nothing and stops nothing: the folders after it are expanded,
\* page 2 is requested, and the stories collected so far stay in the list.
C22_EmptyFolderDoesNotStopCrawl == [][EmptyFolderStep]_vars

\* Two folders that gave nothing, the story of page 1 kept, page 2 next
C22_Witness ==
    /\ pc = "fetch"
    /\ page = 2
    /\ folder_gets = 2
    /\ ~folder_dup /\ ~auth_redirect
    /\ Len(all_stories) = 1
    /\ ~IsFolderItem(all_stories[1])

\* C23: a run on an empty output directory in which no download fails
\* skips no item and ends with one file per item of the list.
C23_NoSkipWithinOneRun ==
    (run = 1 /\ pc = "exit" /\ ending = "completed" /\ failed = 0) =>
        /\ skipped = 0
        /\ Cardinality(files) = Len(stories)

\* C24: while the dashboard of main.py runs, get_proxy_status and
\* is_proxy_running say "running" exactly when a subprocess it started is
\* alive.
C24_StatusAgreesWithReality ==
    (app = "main" /\ up) =>
        /\ get_proxy_status.is_running <=> (alive # {})
        /\ is_proxy_running <=> (alive # {})

\* C25: whenever start_proxy_server returns False and the route answers
\* 'Server already running', the handle was held before the call, the call
\* spawned nothing, and the handle, the script file and the stored state
\* are as before.
C25_RejectedStartChangesNothing ==
    [][(app = "main" /\ StartStep /\ response' = "Server already running") =>
          /\ proxy_process # None
          /\ spawned' = spawned
          /\ alive' = alive
          /\ proxy_process' = proxy_process
          /\ script' = script
          /\ server_state' = server_state]_vars

\* A running subprocess is the one the handle refers to
RunningIsReferenced ==
    up => \A p \in alive : p = proxy_process

\* What serving one of several waiting requests does to the handle
ServeStep ==
    (StartStep \/ StopStep) =>
        /\ (spawned' # spawned) =>
              (proxy_process = None /\ alive = {} /\ spawned' = spawned + 1)
        /\ (proxy_process' # None) <=>
              IF response' = "started" THEN TRUE
              ELSE IF response' = "stopped" THEN FALSE
              ELSE proxy_process # None

\* C26: with start and stop requests sent at the same time and served in
\* any order, two starts never spawn two subprocesses, a running
\* subprocess is always the one the handle refers to, and the handle is
\* set exactly when the last request that was not rejected was a
\* successful start.
C26_ConsistentUnderOverlap ==
    /\ []RunningIsReferenced
    /\ [][ServeStep]_vars

\* C27: since the last init_db, the table holds at most one row for a
\* model name, the row's times_used is the number of update_usage calls made
\* for the model (a row created by save_notes counts from 0), and a model
\* without a row had no such call.
C27_TimesUsedCountsUpdateCalls ==
    \A m \in Models :
        /\ Cardinality(Rows(m)) <= 1
        /\ get_usage(m).times_used = usage_calls[m]
        /\ Rows(m) = {} => usage_calls[m] = 0

\* Two update_usage calls for one model, next to a row that save_notes
\* created
C27_Witness ==
    /\ C27_TimesUsedCountsUpdateCalls
    /\ \E m \in Models : usage_calls[m] = 2 /\ Rows(m) # {}
    /\ \E m \in Models : usage_calls[m] = 0 /\ Rows(m) # {}

SavedFields == {"notes", "rating", "performance_notes", "custom_params"}

\* A save_notes call (from either route) for a model that has a row
SaveOnRowStep(m) ==
    /\ db_calls' = db_calls + 1
    /\ db_op'.op = "save_notes"
    /\ db_op'.model_name = m
    /\ Rows(m) # {}

SaveKeepsTheRest(m) ==
    LET old == get_usage(m)
        new == {r \in model_usage' : r.model_name = m}
    IN  /\ Cardinality(new) = 1
        /\ \A r \in new :
              /\ r.times_used = old.times_used
              /\ \A f \in SavedFields :
                    r[f] = IF db_op'[f] # NULL THEN db_op'[f] ELSE old[f]
        /\ {r \in model_usage : r.model_name # m}
             = {r \in model_usage' : r.model_name # m}

\* C28: save_notes on a model that has a row sets the fields passed as
\* non-None and leaves the row's other fields, its times_used, and the rows
\* of the other models as they were.
C28_SaveChangesOnlyPassedFields ==
    [][\A m \in Models : SaveOnRowStep(m) => SaveKeepsTheRest(m)]_vars

\* A configuration was saved on a row that had notes, a rating and a use,
\* and has them still
C28_Witness ==
    /\ db_op.op = "save_notes"
    /\ db_op.custom_params # NULL
    /\ get_usage(db_op.model_name).custom_params = db_op.custom_params
    /\ get_usage(db_op.model_name).notes # NULL
    /\ get_usage(db_op.model_name).rating # NULL
    /\ get_usage(db_op.model_name).times_used = 1

\* The dashboard is started
RestartStep == ~up /\ up'

UsageKept == \A m \in Models : get_usage(m)' = get_usage(m)

\* C29: what get_usage returns for a model (times_used, notes, rating,
\* configuration) is the same after a start of the dashboard on the same
\* database file as before it.
C29_UsageSurvivesRestart ==
    [][RestartStep => UsageKept]_vars

\* A legacy completion request with a JSON body that holds a prompt
LegacyRequest ==
    /\ request.path = LegacyPath
    /\ request.body.kind = "json"
    /\ request.body.has_prompt

\* C30: when a POST to /v1/completions with a JSON body holding a prompt
\* has been served, exactly one request went to Ollama's /api/chat, with
\* the prompt as its single user message, unless Ollama could not be
\* reached, and the client got an answer of the kinds /v1/chat/completions
\* gives.
C30_LegacyCompletionConverted ==
    (LegacyRequest /\ hpc = "done") =>
        /\ reply \in {ChatReply(st, o) : st \in BOOLEAN,
                                         o \in PostOutcomes \ {"raises"}}
                     \cup {"500"}
        /\ reply # "500" =>
              /\ Len(upstream) = 1
              /\ upstream[1].url = "/api/chat"
              /\ upstream[1].body.messages
                   = <<UserMessage(request.body.prompt)>>
====
